---- MODULE Spec2Model ----
(***************************************************************************)
(* A model of the tryiter crate: the TryIteratorExt combinators of         *)
(* src/src/ext.rs and the TryPeekable lookahead adapter of                 *)
(* src/src/try_peekable.rs, driven over a Vec<Result<Ok, Err>> source.     *)
(*                                                                         *)
(* Rust values are encoded as tagged tuples:                               *)
(*   Ok(v) = <<"Ok", v>>     Err(e) = <<"Err", e>>                         *)
(*   Some(x) = <<"Some", x>> None = <<"None">>                             *)
(***************************************************************************)
EXTENDS Integers, Sequences, FiniteSets, TLC

\* ---------------------------------------------------------------- bounds

\* Longest source vector the driver builds.
MaxLen == 3
\* Success payloads are 1..MaxVal.
MaxVal == 3
\* usize::MAX of the modelled machine word (a scaled-down usize).
UsizeMax == 7

\* ------------------------------------------------------------- encodings

Ok(v) == <<"Ok", v>>
Err(e) == <<"Err", e>>
Some(x) == <<"Some", x>>
None == <<"None">>

is_ok(r) == r[1] = "Ok"
is_err(r) == r[1] = "Err"
is_some(o) == o[1] = "Some"
is_none(o) == o[1] = "None"
unwrap(x) == x[2]

\* Success payloads (i32 in the tests and doc examples).
Vals == 1..MaxVal
\* Failure payloads: opaque to the crate (MyErr, "error").
Errs == {"E", "F"}
\* The items of a Vec<Result<i32, MyErr>>.
Items == {Ok(v) : v \in Vals} \cup {Err(e) : e \in Errs}

RECURSIVE SeqsUpTo(_, _)
SeqsUpTo(S, n) ==
  IF n = 0 THEN {<<>>}
  ELSE LET shorter == SeqsUpTo(S, n - 1)
       IN shorter \cup {Append(s, x) : s \in {t \in shorter : Len(t) = n - 1}, x \in S}

\* ----------------------------------------------------------------- state

VARIABLES
  vals,    \* the source Vec<Result<Ok, Err>> (fixed once built)
  iter,    \* vals.into_iter(): how many elements the cursor has passed
  peeked,  \* TryPeekable.peeked: Option<Option<Ok>>
  kind,    \* the iterator the driver holds: "vec", "vec_of_pairs" (a Vec of
           \* Result<(i32, i32), Err>) or "try_peekable"
  alive,   \* FALSE once a by-value method has consumed the iterator
  call,    \* the last method call: its name, argument, result and pre-state
  run,     \* the current run of consecutive successful peeks
  adapter, \* the lazy combinator built over the iterator, with its closure
  emitted, \* the elements the lazy combinator has emitted so far, in order
  seen     \* the payloads the combinator's closure was called with, in order

vars == <<vals, iter, peeked, kind, alive, call, run, adapter, emitted, seen>>

\* Option::transpose on Option<Result<T, E>> (ext.rs:20).
transpose(o) ==
  IF is_none(o) THEN Ok(None)
  ELSE IF is_ok(unwrap(o)) THEN Ok(Some(unwrap(unwrap(o))))
  ELSE unwrap(o)

\* The outcome of a method: its result, the cursor and the cache it leaves,
\* how many times it called the source's next(), and the payloads it passed
\* to the caller's closure, in call order.
Outcome(res, it, pk, pulls, calls) ==
  [res |-> res, iter |-> it, peeked |-> pk, pulls |-> pulls, calls |-> calls]

\* A source that is not fused: having returned None it starts over.
vec_next_restarting(it) ==
  IF it < Len(vals) THEN Outcome(Some(vals[it + 1]), it + 1, None, 1, <<>>)
  ELSE Outcome(None, 0, None, 1, <<>>)

\* vec::IntoIter::next over vals from cursor position it: fused.
vec_next(it) ==
  IF it < Len(vals) THEN Outcome(Some(vals[it + 1]), it + 1, None, 1, <<>>)
  ELSE Outcome(None, it, None, 1, <<>>)

\* ----------------------------------------------------------- TryPeekable

\* TryPeekable::new: nothing peeked.
new_peeked == None

\* try_peek, had it remembered a failure as the end of the sequence.
try_peek_caching_failure(it, pk) ==
  IF is_some(pk)
  THEN Outcome(Ok(unwrap(pk)), it, pk, 0, <<>>)
  ELSE LET n == vec_next(it) IN
       IF is_none(n.res) THEN Outcome(Ok(None), n.iter, Some(None), 1, <<>>)
       ELSE IF is_ok(unwrap(n.res))
            THEN Outcome(Ok(Some(unwrap(unwrap(n.res)))), n.iter,
                         Some(Some(unwrap(unwrap(n.res)))), 1, <<>>)
            ELSE Outcome(unwrap(n.res), n.iter, Some(None), 1, <<>>)

\* try_peek, had it pulled from the source with a value already cached.
try_peek_pulling_again(it, pk) ==
  LET n == vec_next(it) IN
  IF is_none(n.res) THEN Outcome(Ok(None), n.iter, Some(None), 1, <<>>)
  ELSE IF is_ok(unwrap(n.res))
       THEN Outcome(Ok(Some(unwrap(unwrap(n.res)))), n.iter,
                    Some(Some(unwrap(unwrap(n.res)))), 1, <<>>)
       ELSE Outcome(unwrap(n.res), n.iter, None, 1, <<>>)

\* TryPeekable::try_peek from cursor it and cache pk.
try_peek_fn(it, pk) ==
  IF is_some(pk)
  THEN Outcome(Ok(unwrap(pk)), it, pk, 0, <<>>)
  ELSE LET n == vec_next(it) IN
       IF is_none(n.res) THEN Outcome(Ok(None), n.iter, Some(None), 1, <<>>)
       ELSE IF is_ok(unwrap(n.res))
            THEN Outcome(Ok(Some(unwrap(unwrap(n.res)))), n.iter,
                         Some(Some(unwrap(unwrap(n.res)))), 1, <<>>)
            ELSE Outcome(unwrap(n.res), n.iter, None, 1, <<>>)

\* try_peek_mut, had it shown a pulled success without keeping it.
try_peek_mut_not_keeping(it, pk) ==
  IF is_some(pk)
  THEN Outcome(Ok(unwrap(pk)), it, pk, 0, <<>>)
  ELSE LET n == vec_next(it) IN
       IF is_none(n.res) THEN Outcome(Ok(None), n.iter, Some(None), 1, <<>>)
       ELSE IF is_ok(unwrap(n.res))
            THEN Outcome(Ok(Some(unwrap(unwrap(n.res)))), n.iter, None, 1, <<>>)
            ELSE Outcome(unwrap(n.res), n.iter, None, 1, <<>>)

\* TryPeekable::try_peek_mut: the same transitions, a mutable view.
try_peek_mut_fn(it, pk) ==
  IF is_some(pk)
  THEN Outcome(Ok(unwrap(pk)), it, pk, 0, <<>>)
  ELSE LET n == vec_next(it) IN
       IF is_none(n.res) THEN Outcome(Ok(None), n.iter, Some(None), 1, <<>>)
       ELSE IF is_ok(unwrap(n.res))
            THEN Outcome(Ok(Some(unwrap(unwrap(n.res)))), n.iter,
                         Some(Some(unwrap(unwrap(n.res)))), 1, <<>>)
            ELSE Outcome(unwrap(n.res), n.iter, None, 1, <<>>)

\* next, had it read the cache without taking it.
peekable_next_not_taking(it, pk) ==
  IF is_some(pk) /\ is_some(unwrap(pk))
  THEN Outcome(Some(Ok(unwrap(unwrap(pk)))), it, pk, 0, <<>>)
  ELSE IF is_some(pk) THEN Outcome(None, it, pk, 0, <<>>)
  ELSE vec_next(it)

\* <TryPeekable as Iterator>::next: peeked.take(), then the match.
peekable_next(it, pk) ==
  IF is_some(pk) /\ is_some(unwrap(pk))
  THEN Outcome(Some(Ok(unwrap(unwrap(pk)))), it, None, 0, <<>>)
  ELSE IF is_some(pk) THEN Outcome(None, it, None, 0, <<>>)
  ELSE vec_next(it)

\* Iterator::next of whichever iterator the driver holds.
iter_next(k, it, pk) ==
  IF k = "try_peekable" THEN peekable_next(it, pk) ELSE vec_next(it)

\* vec::IntoIter::count from cursor it: the number of elements left.
vec_count(it) == Len(vals) - it

\* vec::IntoIter::nth(n) from cursor it: skips n elements, yields the next.
vec_nth(it, n) ==
  IF it + n < Len(vals) THEN Outcome(Some(vals[it + n + 1]), it + n + 1, None, 1, <<>>)
  ELSE Outcome(None, Len(vals), None, 1, <<>>)

\* vec::IntoIter::last from cursor it.
vec_last(it) ==
  IF it < Len(vals) THEN Some(vals[Len(vals)]) ELSE None

\* Option::or.
or(a, b) == IF is_some(a) THEN a ELSE b

\* The caller's fold closures FnMut(Acc, Item) -> Acc, with Acc = Vec<Item>.
FoldFns == {"push", "push_front", "replace"}
apply_fold(f, acc, item) ==
  CASE f = "push" -> Append(acc, item)
    [] f = "push_front" -> <<item>> \o acc
    [] OTHER -> <<item>>
\* The initial accumulators the driver passes to fold.
FoldInits == {<<>>, <<Err("E")>>}

\* vec::IntoIter::fold from cursor it.
RECURSIVE vec_fold(_, _, _)
vec_fold(it, acc, f) ==
  IF it < Len(vals) THEN vec_fold(it + 1, apply_fold(f, acc, vals[it + 1]), f)
  ELSE acc

\* count, had it forgotten the buffered element.
peekable_count_forgetting(it, pk) ==
  IF is_some(pk) /\ is_none(unwrap(pk)) THEN 0
  ELSE vec_count(it)

\* <TryPeekable as Iterator>::count.
peekable_count(it, pk) ==
  IF is_some(pk) /\ is_none(unwrap(pk)) THEN 0
  ELSE IF is_some(pk) THEN 1 + vec_count(it)
  ELSE vec_count(it)

\* nth, had it left the cache in place when skipping past it.
peekable_nth_not_taking(it, pk, n) ==
  IF is_some(pk) /\ is_none(unwrap(pk)) THEN Outcome(None, it, None, 0, <<>>)
  ELSE IF is_some(pk) /\ n = 0 THEN Outcome(Some(Ok(unwrap(unwrap(pk)))), it, None, 0, <<>>)
  ELSE IF is_some(pk) THEN [vec_nth(it, n - 1) EXCEPT !.peeked = pk]
  ELSE vec_nth(it, n)

\* <TryPeekable as Iterator>::nth.
peekable_nth(it, pk, n) ==
  IF is_some(pk) /\ is_none(unwrap(pk)) THEN Outcome(None, it, None, 0, <<>>)
  ELSE IF is_some(pk) /\ n = 0 THEN Outcome(Some(Ok(unwrap(unwrap(pk)))), it, None, 0, <<>>)
  ELSE IF is_some(pk) THEN vec_nth(it, n - 1)
  ELSE vec_nth(it, n)

\* <TryPeekable as Iterator>::last.
peekable_last(it, pk) ==
  IF is_some(pk) /\ is_none(unwrap(pk)) THEN None
  ELSE LET peek_opt == IF is_some(pk) THEN Some(Ok(unwrap(unwrap(pk)))) ELSE None
       IN or(vec_last(it), peek_opt)

\* <TryPeekable as Iterator>::fold.
peekable_fold(it, pk, init, f) ==
  IF is_some(pk) /\ is_none(unwrap(pk)) THEN init
  ELSE LET acc == IF is_some(pk) THEN apply_fold(f, init, Ok(unwrap(unwrap(pk)))) ELSE init
       IN vec_fold(it, acc, f)

\* ------------------------------------------------------- the driver's calls

\* The record of a call: method, argument, result, the cursor and cache it
\* started from, the source calls it made and the closure calls it made.
Call(op, arg, o) ==
  [op |-> op, arg |-> arg, res |-> o.res, pre_iter |-> iter, pre_peeked |-> peeked,
   pulls |-> o.pulls, calls |-> o.calls]

NoCall ==
  [op |-> "new", arg |-> None, res |-> None, pre_iter |-> 0, pre_peeked |-> None,
   pulls |-> 0, calls |-> <<>>]

\* No run of successful peeks is in progress.
NoRun == [active |-> FALSE, pulls |-> 0, val |-> None, from |-> 0]

\* A peek extends the run when it succeeds and ends it when it fails. A run
\* remembers the cursor it started from, the value its first peek returned
\* and the source calls made since it started.
peek_run(o) ==
  IF is_err(o.res) THEN NoRun
  ELSE IF run.active THEN [run EXCEPT !.pulls = @ + o.pulls]
  ELSE [active |-> TRUE, pulls |-> o.pulls, val |-> unwrap(o.res), from |-> iter]

\* No lazy combinator has been built over the iterator.
NoAdapter == [op |-> "none", fn |-> "none", from |-> 0]
Direct ==
  /\ adapter = NoAdapter
  /\ emitted = <<>>
  /\ seen = <<>>

\* A &mut self method returned: the iterator lives on in the state o leaves.
Returned(op, arg, o) ==
  /\ iter' = o.iter
  /\ peeked' = o.peeked
  /\ call' = Call(op, arg, o)
  /\ UNCHANGED <<vals, kind, alive, adapter, emitted, seen>>

\* A by-value method returned: the iterator is gone.
Consumed(op, arg, o) ==
  /\ alive' = FALSE
  /\ iter' = o.iter
  /\ peeked' = o.peeked
  /\ call' = Call(op, arg, o)
  /\ run' = NoRun
  /\ UNCHANGED <<vals, kind, adapter, emitted, seen>>

try_peek ==
  /\ alive /\ kind = "try_peekable"
  /\ LET o == try_peek_fn(iter, peeked) IN
       Returned("try_peek", None, o) /\ run' = peek_run(o)

try_peek_mut ==
  /\ alive /\ kind = "try_peekable"
  /\ LET o == try_peek_mut_fn(iter, peeked) IN
       Returned("try_peek_mut", None, o) /\ run' = peek_run(o)

next ==
  /\ alive
  /\ Returned("next", None, iter_next(kind, iter, peeked))
  /\ run' = NoRun

\* The largest index the driver passes to nth.
MaxNth == 2

nth ==
  /\ alive /\ kind = "try_peekable"
  /\ \E n \in 0..MaxNth :
       Returned("nth", n, peekable_nth(iter, peeked, n))
  /\ run' = NoRun

\* Where a by-value method leaves the source: untouched when the end marker
\* was cached (the early return), drained otherwise.
drained(it, pk) == IF is_some(pk) /\ is_none(unwrap(pk)) THEN it ELSE Len(vals)
\* The calls it made on the source: none on the early return, one otherwise.
drain_calls(pk) == IF is_some(pk) /\ is_none(unwrap(pk)) THEN 0 ELSE 1

count ==
  /\ alive /\ kind = "try_peekable"
  /\ Consumed("count", None,
              Outcome(peekable_count(iter, peeked), drained(iter, peeked), None,
                      drain_calls(peeked), <<>>))

last ==
  /\ alive /\ kind = "try_peekable"
  /\ Consumed("last", None,
              Outcome(peekable_last(iter, peeked), drained(iter, peeked), None,
                      drain_calls(peeked), <<>>))

fold ==
  /\ alive /\ kind = "try_peekable"
  /\ \E init \in FoldInits, f \in FoldFns :
       Consumed("fold", <<init, f>>,
                Outcome(peekable_fold(iter, peeked, init, f), drained(iter, peeked), None,
                        drain_calls(peeked), <<>>))

\* try_next, had it stayed on an element that failed.
try_next_staying_on_failure(k, it, pk) ==
  LET o == iter_next(k, it, pk) IN
  IF is_err(transpose(o.res)) THEN [o EXCEPT !.res = transpose(o.res), !.iter = it]
  ELSE [o EXCEPT !.res = transpose(o.res)]

\* TryIteratorExt::try_next: self.next().transpose().
try_next_fn(k, it, pk) ==
  LET o == iter_next(k, it, pk) IN [o EXCEPT !.res = transpose(o.res)]

try_next ==
  /\ alive
  /\ Returned("try_next", None, try_next_fn(kind, iter, peeked))
  /\ run' = NoRun

\* ------------------------------------------------- the lookahead adapter

\* vec.into_iter().try_peekable(): TryPeekable::new over a fresh cursor.
InitPeek ==
  /\ vals \in SeqsUpTo(Items, MaxLen)
  /\ iter = 0
  /\ peeked = new_peeked
  /\ kind = "try_peekable"
  /\ alive = TRUE
  /\ call = NoCall
  /\ run = NoRun
  /\ Direct

NextPeek ==
  \/ try_peek
  \/ try_peek_mut
  \/ next
  \/ nth
  \/ count
  \/ last
  \/ fold
  \/ try_next

SpecPeek == InitPeek /\ [][NextPeek]_vars

\* -------------------------------------- properties of the lookahead adapter

Peeks == {"try_peek", "try_peek_mut"}

\* What the source holds at cursor position p: its next element, or None.
ItemAt(p) == IF p < Len(vals) THEN Some(vals[p + 1]) ELSE None

\* The three cache states before the last call.
WasEmpty == is_none(call.pre_peeked)
WasBufferedSome == is_some(call.pre_peeked) /\ is_some(unwrap(call.pre_peeked))
WasBufferedNone == is_some(call.pre_peeked) /\ is_none(unwrap(call.pre_peeked))

\* The doc example of try_peekable (ext.rs:244).
PeekDocVec == <<Ok(1), Err("E"), Ok(2)>>

\* A peek on an Empty cache met a failure.
C1_FailedPeek ==
  /\ call.op \in Peeks /\ WasEmpty
  /\ call.pre_iter < Len(vals) /\ is_err(vals[call.pre_iter + 1])

\* One step of C1, read on the step's two states.
C1_Step ==
  \* the failing peek returns the failure, passes that one element, caches nothing
  /\ C1_FailedPeek' =>
       /\ call'.res = vals[call'.pre_iter + 1]
       /\ call'.pulls = 1
       /\ iter' = call'.pre_iter + 1
       /\ peeked' = None
  \* the call that follows it pulls the element after the failure
  /\ (C1_FailedPeek /\ call'.op \in Peeks \cup {"next", "try_next"}) =>
       /\ call'.pre_iter = call.pre_iter + 1
       /\ call'.pulls = 1
       /\ call'.res = IF call'.op = "next" THEN ItemAt(call.pre_iter + 1)
                      ELSE transpose(ItemAt(call.pre_iter + 1))
  \* no element is passed twice
  /\ iter' >= iter
  \* the doc example, call by call
  /\ (vals = PeekDocVec /\ call'.op = "try_peek" /\ call'.pre_iter = 0 /\ is_none(call'.pre_peeked))
       => call'.res = Ok(Some(1))
  /\ (vals = PeekDocVec /\ call'.op = "next" /\ call'.pre_peeked = Some(Some(1)))
       => call'.res = Some(Ok(1)) /\ iter' = 1
  /\ (vals = PeekDocVec /\ call'.op = "try_peek" /\ call'.pre_iter = 1 /\ is_none(call'.pre_peeked))
       => call'.res = Err("E")
  /\ (vals = PeekDocVec /\ call.op = "try_peek" /\ call.res = Err("E") /\ call'.op = "try_peek")
       => call'.res = Ok(Some(2))

\* C1: a peek on an Empty cache that meets a failure E returns Err(E),
\* consumes exactly that element and leaves the cache Empty; the call after
\* it pulls the element after E, so E is never returned twice. Over
\* [Ok(1), Err(E), Ok(2)]: try_peek = Ok(Some(1)), next = Ok(1),
\* try_peek = Err(E), try_peek = Ok(Some(2)).
C1_FailureNotStored == [][C1_Step]_vars

\* A failed peek over the doc example has been followed by a peek of Ok(2).
C1_Witness ==
  /\ vals = PeekDocVec
  /\ call.op = "try_peek" /\ call.pre_iter = 2 /\ WasEmpty
  /\ call.res = Ok(Some(2)) /\ iter = 3

\* C2: with BufferedSome or BufferedNone cached a peek returns the cached
\* view and makes no call on the source; a run of consecutive successful
\* peeks returns one and the same value and calls the source's next() once
\* in total (the first peek's pull), which passes one element, or none when
\* it finds the source exhausted.
C2_CachedPeekNoPull ==
  /\ (call.op \in Peeks /\ ~WasEmpty) =>
       /\ call.res = Ok(unwrap(call.pre_peeked))
       /\ call.pulls = 0
       /\ iter = call.pre_iter
       /\ peeked = call.pre_peeked
  /\ run.active =>
       /\ call.op \in Peeks
       /\ call.res = Ok(run.val)
       /\ peeked = Some(run.val)
       /\ run.pulls = 1
       /\ run.val = transpose(ItemAt(run.from))[2]
       /\ iter = IF is_some(run.val) THEN run.from + 1 ELSE run.from

\* A second peek in a row returned the buffered success.
C2_Witness ==
  /\ call.op \in Peeks /\ WasBufferedSome
  /\ run.active /\ run.pulls = 1
  /\ call.res = Ok(run.val)

\* One step of C3, read on the step's two states.
C3_Step ==
  /\ (call'.op = "next" /\ WasBufferedSome') =>
       /\ call'.res = Some(Ok(unwrap(unwrap(call'.pre_peeked))))
       /\ call'.pulls = 0 /\ iter' = call'.pre_iter /\ peeked' = None
  /\ (call'.op = "next" /\ WasBufferedNone') =>
       /\ call'.res = None
       /\ call'.pulls = 0 /\ iter' = call'.pre_iter /\ peeked' = None
  /\ (call'.op = "next" /\ WasEmpty') =>
       /\ call'.res = ItemAt(call'.pre_iter)
       /\ call'.pulls = 1 /\ peeked' = None
       /\ iter' = IF call'.pre_iter < Len(vals) THEN call'.pre_iter + 1 ELSE call'.pre_iter
  \* a peek returned Ok(Some(v)): the consuming call after it returns Ok(v)
  /\ (call.op \in Peeks /\ is_ok(call.res) /\ is_some(unwrap(call.res))) =>
       /\ call'.op = "next" => call'.res = Some(Ok(unwrap(unwrap(call.res))))
       /\ call'.op = "try_next" => call'.res = Ok(Some(unwrap(unwrap(call.res))))
       /\ (call'.op = "nth" /\ call'.arg = 0) => call'.res = Some(Ok(unwrap(unwrap(call.res))))

\* C3: next returns a cached success, or None for a cached end, without
\* calling the source, and leaves the cache Empty; on an Empty cache it
\* returns what the source's next returns. Whenever a peek returned
\* Ok(Some(v)) the next consuming call returns Ok(v).
C3_NextTakesCache == [][C3_Step]_vars

\* next has handed out a value that a peek had buffered.
C3_Witness ==
  /\ call.op = "next" /\ WasBufferedSome
  /\ call.res = Some(Ok(unwrap(unwrap(call.pre_peeked))))
  /\ call.pulls = 0 /\ peeked = None

\* C4: the cache starts Empty, becomes BufferedSome or BufferedNone only by
\* a peek, is Empty right after every consuming call (next, nth, try_next,
\* and the by-value count, last, fold), and never holds anything but nothing, one success payload or the end
\* marker.
C4_CacheLifecycle ==
  /\ call.op = "new" => peeked = None
  /\ is_some(peeked) => call.op \in Peeks
  /\ call.op \in {"next", "nth", "try_next", "count", "last", "fold"} => peeked = None
  /\ peeked \in {None, Some(None)} \cup {Some(Some(v)) : v \in Vals}

\* nth has cleared a cache that held a success.
C4_Witness ==
  /\ call.op = "nth" /\ WasBufferedSome
  /\ peeked = None

\* The sequence the adapter stands for before the last call: the buffered
\* success, if any, followed by what the source has left.
Logical ==
  (IF WasBufferedSome THEN <<Ok(unwrap(unwrap(call.pre_peeked)))>> ELSE <<>>)
    \o SubSeq(vals, call.pre_iter + 1, Len(vals))

\* Iterator::fold on a plain sequence of items.
RECURSIVE seq_fold(_, _, _)
seq_fold(s, acc, f) ==
  IF s = <<>> THEN acc ELSE seq_fold(Tail(s), apply_fold(f, acc, Head(s)), f)

\* C5: count, last, fold and nth give what the same method gives on the raw
\* remaining source with the buffered success prepended; with BufferedNone
\* cached they report an exhausted sequence.
C5_BufferedAccounted ==
  /\ call.op = "count" =>
       /\ call.res = Len(Logical)
       /\ WasBufferedNone => call.res = 0
  /\ call.op = "last" =>
       /\ call.res = IF Logical = <<>> THEN None ELSE Some(Logical[Len(Logical)])
       /\ WasBufferedNone => call.res = None
  /\ call.op = "fold" =>
       /\ call.res = seq_fold(Logical, call.arg[1], call.arg[2])
       /\ WasBufferedNone => call.res = call.arg[1]
  /\ call.op = "nth" =>
       /\ call.res = IF call.arg < Len(Logical) THEN Some(Logical[call.arg + 1]) ELSE None
       /\ WasBufferedNone => call.res = None

\* last was called with a success buffered and nothing left in the source:
\* the buffered element is the last one.
C5_Witness ==
  /\ call.op = "last" /\ WasBufferedSome
  /\ call.pre_iter = Len(vals)
  /\ call.res = Some(Ok(unwrap(unwrap(call.pre_peeked))))

\* ---------------------------------------------------- try_all and try_any

\* The caller's predicates FnMut(Ok) -> Result<bool, Err>: those of the doc
\* examples of try_all and try_any, and one that fails on the payload 2.
Preds == {"lt4", "gt4", "ne2", "eq3", "odd_or_fail"}
apply_pred(f, x) ==
  CASE f = "lt4" -> Ok(x < 4)
    [] f = "gt4" -> Ok(x > 4)
    [] f = "ne2" -> Ok(x # 2)
    [] f = "eq3" -> Ok(x = 3)
    [] OTHER -> IF x = 2 THEN Err("F") ELSE Ok(x = 1)

\* Result::and_then(&mut f): f sees success payloads only.
and_then(result, f) == IF is_ok(result) THEN apply_pred(f, unwrap(result)) ELSE result
\* The closure calls made so far, after and_then on result.
and_then_calls(result, calls) ==
  IF is_ok(result) THEN Append(calls, unwrap(result)) ELSE calls

\* try_all, had it skipped the source's failures instead of returning them.
RECURSIVE try_all_skipping_failures(_, _, _, _, _, _)
try_all_skipping_failures(k, it, pk, f, pulls, calls) ==
  LET o == iter_next(k, it, pk) IN
  IF is_none(o.res) THEN Outcome(Ok(TRUE), o.iter, o.peeked, pulls + 1, calls)
  ELSE IF is_err(unwrap(o.res))
       THEN try_all_skipping_failures(k, o.iter, o.peeked, f, pulls + 1, calls)
  ELSE LET r == and_then(unwrap(o.res), f)
           cs == and_then_calls(unwrap(o.res), calls)
       IN IF is_err(r) THEN Outcome(r, o.iter, o.peeked, pulls + 1, cs)
          ELSE IF ~unwrap(r) THEN Outcome(Ok(FALSE), o.iter, o.peeked, pulls + 1, cs)
          ELSE try_all_skipping_failures(k, o.iter, o.peeked, f, pulls + 1, cs)

\* try_any, had it answered Ok(true) at the end of the sequence.
RECURSIVE try_any_true_at_end(_, _, _, _, _, _)
try_any_true_at_end(k, it, pk, f, pulls, calls) ==
  LET o == iter_next(k, it, pk) IN
  IF is_none(o.res) THEN Outcome(Ok(TRUE), o.iter, o.peeked, pulls + 1, calls)
  ELSE LET r == and_then(unwrap(o.res), f)
           cs == and_then_calls(unwrap(o.res), calls)
       IN IF is_err(r) THEN Outcome(r, o.iter, o.peeked, pulls + 1, cs)
          ELSE IF unwrap(r) THEN Outcome(Ok(TRUE), o.iter, o.peeked, pulls + 1, cs)
          ELSE try_any_true_at_end(k, o.iter, o.peeked, f, pulls + 1, cs)

\* try_any, had it pulled one element more before returning its answer.
RECURSIVE try_any_reading_ahead(_, _, _, _, _, _)
try_any_reading_ahead(k, it, pk, f, pulls, calls) ==
  LET o == iter_next(k, it, pk) IN
  IF is_none(o.res) THEN Outcome(Ok(FALSE), o.iter, o.peeked, pulls + 1, calls)
  ELSE LET r == and_then(unwrap(o.res), f)
           cs == and_then_calls(unwrap(o.res), calls)
           ahead == iter_next(k, o.iter, o.peeked)
       IN IF is_err(r) THEN Outcome(r, ahead.iter, ahead.peeked, pulls + 2, cs)
          ELSE IF unwrap(r) THEN Outcome(Ok(TRUE), ahead.iter, ahead.peeked, pulls + 2, cs)
          ELSE try_any_reading_ahead(k, o.iter, o.peeked, f, pulls + 1, cs)

\* TryIteratorExt::try_all: the for loop over self, from cursor it and cache
\* pk, having made pulls calls of next() and the closure calls so far.
RECURSIVE try_all_fn(_, _, _, _, _, _)
try_all_fn(k, it, pk, f, pulls, calls) ==
  LET o == iter_next(k, it, pk) IN
  IF is_none(o.res) THEN Outcome(Ok(TRUE), o.iter, o.peeked, pulls + 1, calls)
  ELSE LET r == and_then(unwrap(o.res), f)
           cs == and_then_calls(unwrap(o.res), calls)
       IN IF is_err(r) THEN Outcome(r, o.iter, o.peeked, pulls + 1, cs)
          ELSE IF ~unwrap(r) THEN Outcome(Ok(FALSE), o.iter, o.peeked, pulls + 1, cs)
          ELSE try_all_fn(k, o.iter, o.peeked, f, pulls + 1, cs)

\* TryIteratorExt::try_any.
RECURSIVE try_any_fn(_, _, _, _, _, _)
try_any_fn(k, it, pk, f, pulls, calls) ==
  LET o == iter_next(k, it, pk) IN
  IF is_none(o.res) THEN Outcome(Ok(FALSE), o.iter, o.peeked, pulls + 1, calls)
  ELSE LET r == and_then(unwrap(o.res), f)
           cs == and_then_calls(unwrap(o.res), calls)
       IN IF is_err(r) THEN Outcome(r, o.iter, o.peeked, pulls + 1, cs)
          ELSE IF unwrap(r) THEN Outcome(Ok(TRUE), o.iter, o.peeked, pulls + 1, cs)
          ELSE try_any_fn(k, o.iter, o.peeked, f, pulls + 1, cs)

try_all ==
  /\ alive
  /\ \E f \in Preds : Returned("try_all", f, try_all_fn(kind, iter, peeked, f, 0, <<>>))
  /\ run' = NoRun

try_any ==
  /\ alive
  /\ \E f \in Preds : Returned("try_any", f, try_any_fn(kind, iter, peeked, f, 0, <<>>))
  /\ run' = NoRun

\* The vectors of the doc examples of try_next, try_all and try_any.
DocVecs ==
  { <<Ok(1), Ok(2), Err("E"), Ok(3)>>,
    <<Ok(1), Ok(2), Ok(3), Err("E")>> }

\* vals.into_iter(): a fresh cursor over the vector, no adapter.
InitExt ==
  /\ vals \in SeqsUpTo(Items, MaxLen) \cup DocVecs
  /\ iter = 0
  /\ peeked = None
  /\ kind = "vec"
  /\ alive = TRUE
  /\ call = NoCall
  /\ run = NoRun
  /\ Direct

NextExt ==
  \/ next
  \/ try_next
  \/ try_all
  \/ try_any

SpecExt == InitExt /\ [][NextExt]_vars

\* ------------------------------- properties of try_next, try_all, try_any

\* The vector of the test of try_next in the spec: two successes, a failure.
NextDocVec == <<Ok(1), Ok(2), Err("E")>>

\* What try_next is to return for what the source holds at position p.
Lifted(p) ==
  IF p >= Len(vals) THEN Ok(None)
  ELSE IF vals[p + 1][1] = "Ok" THEN Ok(Some(vals[p + 1][2]))
  ELSE Err(vals[p + 1][2])

\* One step of C6, read on the step's two states.
C6_Step ==
  /\ call'.op = "try_next" =>
       /\ call'.res = Lifted(call'.pre_iter)
       /\ call'.pulls = 1
       /\ iter' = IF call'.pre_iter < Len(vals) THEN call'.pre_iter + 1 ELSE call'.pre_iter
  \* after a failure the cursor is past the failed element
  /\ (call.op = "try_next" /\ is_err(call.res)) => iter = call.pre_iter + 1
  /\ (call.op = "try_next" /\ is_err(call.res) /\ call'.op = "try_next") =>
       /\ call'.pre_iter = call.pre_iter + 1
       /\ call'.res = Lifted(call.pre_iter + 1)
  \* the example, call by call
  /\ (vals = NextDocVec /\ call'.op = "try_next" /\ call'.pre_iter = 0) => call'.res = Ok(Some(1))
  /\ (vals = NextDocVec /\ call'.op = "try_next" /\ call'.pre_iter = 1) => call'.res = Ok(Some(2))
  /\ (vals = NextDocVec /\ call'.op = "try_next" /\ call'.pre_iter = 2) => call'.res = Err("E")
  /\ (vals = NextDocVec /\ call.op = "try_next" /\ call.res = Err("E") /\ call'.op = "try_next")
       => call'.res = Ok(None)

\* C6: try_next advances by exactly one step and returns Ok(None) at the
\* end, Ok(Some(v)) for a success v and Err(e) for a failure e; after a
\* failure the sequence is past the failed element, so the next try_next
\* does not raise it again. Over [Ok(1), Ok(2), Err(E)]: Ok(Some(1)),
\* Ok(Some(2)), Err(E), then Ok(None).
C6_TryNext == [][C6_Step]_vars

\* try_next has raised the failure of the example and then found the end.
C6_Witness ==
  /\ vals = NextDocVec
  /\ call.op = "try_next" /\ call.pre_iter = 3
  /\ call.res = Ok(None)

\* What an element decides for a predicate f: its own failure, or f's answer.
verdict(f, item) == IF is_err(item) THEN item ELSE apply_pred(f, unwrap(item))

\* The first position of s that ends a traversal which goes on while the
\* verdict is Ok(go); 0 if there is none.
FirstDeciding(s, f, go) ==
  LET D == {i \in 1..Len(s) : verdict(f, s[i]) # Ok(go)}
  IN IF D = {} THEN 0 ELSE CHOOSE i \in D : \A j \in D : i <= j

\* The success payloads of s, in order.
payloads(s) == LET oks == SelectSeq(s, is_ok) IN [i \in 1..Len(oks) |-> oks[i][2]]

\* The elements a traversal of s reads when it is decided at position d.
Read(s, d) == IF d = 0 THEN s ELSE SubSeq(s, 1, d)

\* C7: try_all(f) returns the first failure (the source's or f's) if that
\* comes before any success on which f is false, Ok(false) at the first
\* success on which f is false if that comes before any failure, Ok(true)
\* if the sequence ends with neither; f is applied to successes only.
C7_TryAll ==
  call.op = "try_all" =>
    LET d == FirstDeciding(Logical, call.arg, TRUE) IN
    /\ call.res = IF d = 0 THEN Ok(TRUE)
                  ELSE IF is_err(verdict(call.arg, Logical[d])) THEN verdict(call.arg, Logical[d])
                  ELSE Ok(FALSE)
    /\ call.calls = payloads(Read(Logical, d))

\* try_all stopped on a failure of its predicate, after a success it accepted.
C7_Witness ==
  /\ call.op = "try_all" /\ call.arg = "odd_or_fail"
  /\ call.res = Err("F")
  /\ call.calls = <<1, 2>>

\* C8: try_any(f) returns the first failure (the source's or f's) if that
\* comes before any success on which f is true, Ok(true) at the first
\* success on which f is true if that comes before any failure, Ok(false)
\* if the sequence ends with neither; f is applied to successes only.
C8_TryAny ==
  call.op = "try_any" =>
    LET d == FirstDeciding(Logical, call.arg, FALSE) IN
    /\ call.res = IF d = 0 THEN Ok(FALSE)
                  ELSE IF is_err(verdict(call.arg, Logical[d])) THEN verdict(call.arg, Logical[d])
                  ELSE Ok(TRUE)
    /\ call.calls = payloads(Read(Logical, d))

\* try_any found its success after one it rejected, with a failure behind it.
C8_Witness ==
  /\ call.op = "try_any" /\ call.arg = "eq3"
  /\ call.res = Ok(TRUE)
  /\ call.calls = <<1, 3>>
  /\ iter < Len(vals) /\ is_err(vals[iter + 1])

\* The position that decided the last try_all or try_any; 0 if it ran to the end.
Decided ==
  FirstDeciding(Logical, call.arg, call.op = "try_all")

\* The vector of the doc example and the test of the spec for try_all.
AllDocVec == <<Ok(1), Ok(2), Err("E"), Ok(3)>>

\* One step of C9, read on the step's two states.
C9_Step ==
  \* a short circuit reads the prefix up to the deciding element, no more
  /\ (call'.op \in {"try_all", "try_any"} /\ Decided' # 0) =>
       /\ iter' = call'.pre_iter + Decided'
       /\ call'.pulls = Decided'
  /\ vals' = vals
  \* the pull that follows yields the element after the deciding one
  /\ (call.op \in {"try_all", "try_any"} /\ Decided # 0 /\ call'.op = "next") =>
       call'.res = ItemAt(call.pre_iter + Decided)
  \* and the pulls after it go on in order
  /\ (call.op = "next" /\ call'.op = "next") => call'.res = ItemAt(iter)
  /\ (call.op = "next" /\ is_some(call.res)) => iter = call.pre_iter + 1
  \* the doc example
  /\ (vals = AllDocVec /\ call'.op = "try_all" /\ call'.arg = "lt4" /\ call'.pre_iter = 0)
       => call'.res = Err("E")
  /\ (vals = AllDocVec /\ call.op = "try_all" /\ call.arg = "lt4" /\ call.pre_iter = 0
        /\ call'.op = "next") => call'.res = Some(Ok(3))

\* C9: when try_all or try_any short-circuits it has consumed exactly the
\* prefix up to and including the deciding element; the later elements are
\* left as they were and further pulls yield them in order. After
\* try_all(< 4) over [Ok(1), Ok(2), Err(E), Ok(3)] returns Err(E), the next
\* pull yields Ok(3).
C9_ShortCircuitFrame == [][C9_Step]_vars

\* The pull after the try_all of the doc example has yielded Ok(3).
C9_Witness ==
  /\ vals = AllDocVec
  /\ call.op = "next" /\ call.pre_iter = 3
  /\ call.res = Some(Ok(3))

\* ------------------------------------------------- the terminal reductions

\* The second components of the pairs of the doc examples ((9, 0), (9, -1)).
Tags == {0, -1}
\* Pair payloads (i32, i32), as in the doc examples of try_min_by.
Pairs == Vals \X Tags
\* The items of a Vec<Result<(i32, i32), Err>>.
PairItems == {Ok(p) : p \in Pairs} \cup {Err(e) : e \in Errs}

\* i32::cmp.
cmp(a, b) == IF a < b THEN "Less" ELSE IF a = b THEN "Equal" ELSE "Greater"

\* The caller's comparators FnMut(&Ok, &Ok) -> Ordering: on the first
\* component (the doc example), on the second, and Ord::cmp of the pair.
Compares == {"fst", "snd", "ord"}
apply_compare(c, x, y) ==
  CASE c = "fst" -> cmp(x[1], y[1])
    [] c = "snd" -> cmp(x[2], y[2])
    [] OTHER -> IF cmp(x[1], y[1]) # "Equal" THEN cmp(x[1], y[1]) ELSE cmp(x[2], y[2])

\* The caller's key functions FnMut(&Ok) -> B.
KeyFns == {"fst", "snd"}
apply_key(f, x) == IF f = "fst" THEN x[1] ELSE x[2]

\* A minimum that gives way on a tie (the last of the ties).
min_by_keeping_last(v1, v2, c) == IF apply_compare(c, v1, v2) = "Less" THEN v1 ELSE v2

\* std::cmp::min_by: v1 unless compare(v1, v2) is Greater.
min_by(v1, v2, c) == IF apply_compare(c, v1, v2) = "Greater" THEN v2 ELSE v1

\* std::cmp::min_by_key: min_by on the keys.
min_by_key(v1, v2, f) ==
  IF cmp(apply_key(f, v1), apply_key(f, v2)) = "Greater" THEN v2 ELSE v1

\* A maximum that keeps the accumulator on a tie (the first of the ties).
max_by_keeping_first(v1, v2, c) == IF apply_compare(c, v1, v2) = "Less" THEN v2 ELSE v1

\* A key maximum that keeps the accumulator on a tie.
max_by_key_keeping_first(v1, v2, f) ==
  IF cmp(apply_key(f, v1), apply_key(f, v2)) = "Less" THEN v2 ELSE v1

\* std::cmp::max_by: v2 unless compare(v1, v2) is Greater.
max_by(v1, v2, c) == IF apply_compare(c, v1, v2) = "Greater" THEN v1 ELSE v2

\* std::cmp::max_by_key: max_by on the keys.
max_by_key(v1, v2, f) ==
  IF cmp(apply_key(f, v1), apply_key(f, v2)) = "Greater" THEN v1 ELSE v2

\* The closure a reduction folds with: how it joins the accumulator and x.
reduce(how, acc, x, fn) ==
  CASE how = "min_by" -> min_by(acc, x, fn)
    [] how = "min_by_key" -> min_by_key(acc, x, fn)
    [] how = "max_by" -> max_by(acc, x, fn)
    [] OTHER -> max_by_key(acc, x, fn)

\* A fold that passes over failures and reduces the successes around them.
RECURSIVE try_fold_reduce_skipping_failures(_, _, _, _, _, _, _)
try_fold_reduce_skipping_failures(k, it, pk, acc, how, fn, pulls) ==
  LET o == iter_next(k, it, pk) IN
  IF is_none(o.res) THEN Outcome(Ok(acc), o.iter, o.peeked, pulls + 1, <<>>)
  ELSE IF is_err(unwrap(o.res))
    THEN try_fold_reduce_skipping_failures(k, o.iter, o.peeked, acc, how, fn, pulls + 1)
  ELSE try_fold_reduce_skipping_failures(k, o.iter, o.peeked,
         reduce(how, acc, unwrap(unwrap(o.res)), fn), how, fn, pulls + 1)

\* Iterator::try_fold with the closure of try_max_by, try_max_by_key,
\* try_min_by or try_min_by_key: it stops at the first failure and returns it.
RECURSIVE try_fold_reduce(_, _, _, _, _, _, _)
try_fold_reduce(k, it, pk, acc, how, fn, pulls) ==
  LET o == iter_next(k, it, pk) IN
  IF is_none(o.res) THEN Outcome(Ok(acc), o.iter, o.peeked, pulls + 1, <<>>)
  ELSE IF is_err(unwrap(o.res)) THEN Outcome(unwrap(o.res), o.iter, o.peeked, pulls + 1, <<>>)
  ELSE try_fold_reduce(k, o.iter, o.peeked, reduce(how, acc, unwrap(unwrap(o.res)), fn),
                       how, fn, pulls + 1)

\* The body shared by try_min_by and try_min_by_key: match self.next().
try_reduce_fn(k, it, pk, how, fn) ==
  LET o == iter_next(k, it, pk) IN
  IF is_none(o.res) THEN Outcome(Ok(None), o.iter, o.peeked, 1, <<>>)
  ELSE IF is_err(unwrap(o.res)) THEN Outcome(unwrap(o.res), o.iter, o.peeked, 1, <<>>)
  ELSE LET r == try_fold_reduce(k, o.iter, o.peeked, unwrap(unwrap(o.res)), how, fn, 1)
       IN [r EXCEPT !.res = transpose(Some(r.res))]

\* TryIteratorExt::try_min_by.
try_min_by_fn(k, it, pk, c) == try_reduce_fn(k, it, pk, "min_by", c)

\* TryIteratorExt::try_min_by_key.
try_min_by_key_fn(k, it, pk, f) == try_reduce_fn(k, it, pk, "min_by_key", f)

\* TryIteratorExt::try_min: try_min_by(Self::Ok::cmp).
try_min_fn(k, it, pk) == try_min_by_fn(k, it, pk, "ord")

try_min ==
  /\ alive
  /\ Consumed("try_min", "ord", try_min_fn(kind, iter, peeked))

try_min_by ==
  /\ alive
  /\ \E c \in Compares : Consumed("try_min_by", c, try_min_by_fn(kind, iter, peeked, c))

try_min_by_key ==
  /\ alive
  /\ \E f \in KeyFns : Consumed("try_min_by_key", f, try_min_by_key_fn(kind, iter, peeked, f))

\* TryIteratorExt::try_max_by.
try_max_by_fn(k, it, pk, c) == try_reduce_fn(k, it, pk, "max_by", c)

\* TryIteratorExt::try_max_by_key.
try_max_by_key_fn(k, it, pk, f) == try_reduce_fn(k, it, pk, "max_by_key", f)

\* TryIteratorExt::try_max: try_max_by(Self::Ok::cmp).
try_max_fn(k, it, pk) == try_max_by_fn(k, it, pk, "ord")

try_max ==
  /\ alive
  /\ Consumed("try_max", "ord", try_max_fn(kind, iter, peeked))

try_max_by ==
  /\ alive
  /\ \E c \in Compares : Consumed("try_max_by", c, try_max_by_fn(kind, iter, peeked, c))

try_max_by_key ==
  /\ alive
  /\ \E f \in KeyFns : Consumed("try_max_by_key", f, try_max_by_key_fn(kind, iter, peeked, f))

\* The vectors of the doc examples of try_max_by and try_max_by_key (the
\* failures Err(7), Err(9) of the second one are written Err("E"), Err("F")).
MaxDocVec == <<Ok(<<5, 0>>), Ok(<<9, 0>>), Ok(<<7, 0>>), Ok(<<9, -1>>), Ok(<<8, 0>>)>>
MaxErrDocVec == <<Ok(<<5, 0>>), Ok(<<9, 0>>), Err("E"), Err("F"), Ok(<<8, 0>>)>>

\* An unzip that, stopped by a failure, hands back what it gathered so far.
RECURSIVE try_unzip_returning_partial(_, _, _, _, _, _)
try_unzip_returning_partial(k, it, pk, left_list, right_list, pulls) ==
  LET o == iter_next(k, it, pk) IN
  IF is_none(o.res) \/ is_err(unwrap(o.res))
    THEN Outcome(Ok(<<left_list, right_list>>), o.iter, o.peeked, pulls + 1, <<>>)
  ELSE LET couple == unwrap(unwrap(o.res)) IN
       try_unzip_returning_partial(k, o.iter, o.peeked, Append(left_list, couple[1]),
                                   Append(right_list, couple[2]), pulls + 1)

\* The try_fold of try_unzip: `couple?` returns the failure out of the
\* closure, which ends the fold; otherwise both containers are extended.
RECURSIVE try_unzip_fold(_, _, _, _, _, _)
try_unzip_fold(k, it, pk, left_list, right_list, pulls) ==
  LET o == iter_next(k, it, pk) IN
  IF is_none(o.res)
    THEN Outcome(Ok(<<left_list, right_list>>), o.iter, o.peeked, pulls + 1, <<>>)
  ELSE IF is_err(unwrap(o.res)) THEN Outcome(unwrap(o.res), o.iter, o.peeked, pulls + 1, <<>>)
  ELSE LET couple == unwrap(unwrap(o.res)) IN
       try_unzip_fold(k, o.iter, o.peeked, Append(left_list, couple[1]),
                      Append(right_list, couple[2]), pulls + 1)

\* TryIteratorExt::try_unzip into two Vecs, from (FromA::default(),
\* FromB::default()).
try_unzip_fn(k, it, pk) == try_unzip_fold(k, it, pk, <<>>, <<>>, 0)

\* try_unzip takes &mut self: the iterator stays with the caller.
try_unzip ==
  /\ alive
  /\ Returned("try_unzip", None, try_unzip_fn(kind, iter, peeked))
  /\ run' = NoRun

\* The vectors of the doc example of try_unzip.
UnzipDocVec == <<Ok(<<1, 2>>), Ok(<<3, 4>>), Ok(<<5, 6>>)>>
UnzipErrDocVec == <<Ok(<<1, 2>>), Err("E"), Ok(<<5, 6>>)>>

ReduceDocVecs == {MaxDocVec, MaxErrDocVec, UnzipDocVec, UnzipErrDocVec}

\* vals.into_iter() over a vector of pairs.
InitReduce ==
  /\ vals \in SeqsUpTo(PairItems, MaxLen) \cup ReduceDocVecs
  /\ iter = 0
  /\ peeked = None
  /\ kind = "vec_of_pairs"
  /\ alive = TRUE
  /\ call = NoCall
  /\ run = NoRun
  /\ Direct

NextReduce ==
  \/ next
  \/ try_min
  \/ try_min_by
  \/ try_min_by_key
  \/ try_max
  \/ try_max_by
  \/ try_max_by_key
  \/ try_unzip

SpecReduce == InitReduce /\ [][NextReduce]_vars

\* ------------------------------------------------- properties of try_min*

\* The order the last reduction compared under.
OrderOf(x, y) ==
  IF call.op \in {"try_min_by_key", "try_max_by_key"} THEN cmp(apply_key(call.arg, x), apply_key(call.arg, y))
  ELSE apply_compare(call.arg, x, y)

\* The positions of s whose payload no payload of s is less than.
Minimal(s) ==
  {i \in 1..Len(s) : \A j \in 1..Len(s) : OrderOf(s[j][2], s[i][2]) # "Less"}

AllOk(s) == \A i \in 1..Len(s) : is_ok(s[i])

\* C10: over a non-empty sequence with no failures try_min, try_min_by and
\* try_min_by_key return Ok(Some(m)) with m a minimal element, the last of
\* the equally minimum ones in sequence order; over an empty sequence they
\* return Ok(None).
C10_MinLastOfTies ==
  (call.op \in {"try_min", "try_min_by", "try_min_by_key"} /\ AllOk(Logical)) =>
    IF Logical = <<>> THEN call.res = Ok(None)
    ELSE LET m == CHOOSE i \in Minimal(Logical) : \A j \in Minimal(Logical) : j <= i
         IN call.res = Ok(Some(Logical[m][2]))

\* What the code does: the first of the equally minimum elements is returned.
MinFirstOfTies ==
  (call.op \in {"try_min", "try_min_by", "try_min_by_key"} /\ AllOk(Logical)) =>
    IF Logical = <<>> THEN call.res = Ok(None)
    ELSE LET m == CHOOSE i \in Minimal(Logical) : \A j \in Minimal(Logical) : i <= j
         IN call.res = Ok(Some(Logical[m][2]))

\* ------------------------------------------------- properties of try_max*

\* The positions of s whose payload no payload of s is greater than.
Maximal(s) ==
  {i \in 1..Len(s) : \A j \in 1..Len(s) : OrderOf(s[j][2], s[i][2]) # "Greater"}

MaxOps == {"try_max", "try_max_by", "try_max_by_key"}

\* C11: over a non-empty sequence with no failures try_max, try_max_by and
\* try_max_by_key return Ok(Some(m)) with m a maximal element, the last of
\* the equally maximum ones in sequence order (on the first component over
\* [(5,0),(9,0),(7,0),(9,-1),(8,0)] that is (9,-1)); over an empty sequence
\* they return Ok(None).
C11_MaxLastOfTies ==
  (call.op \in MaxOps /\ AllOk(Logical)) =>
    /\ IF Logical = <<>> THEN call.res = Ok(None)
       ELSE LET m == CHOOSE i \in Maximal(Logical) : \A j \in Maximal(Logical) : j <= i
            IN call.res = Ok(Some(Logical[m][2]))
    /\ (Logical = MaxDocVec /\ call.arg = "fst") => call.res = Ok(Some(<<9, -1>>))

\* try_max_by_key on the first component ran over the doc vector, whose two
\* maxima (9,0) and (9,-1) tie.
C11_Witness ==
  /\ call.op = "try_max_by_key"
  /\ call.arg = "fst"
  /\ call.pre_iter = 0
  /\ vals = MaxDocVec
  /\ call.res = Ok(Some(<<9, -1>>))

\* ------------------------------------- failures in the terminal reductions

ReduceOps == MaxOps \cup {"try_min", "try_min_by", "try_min_by_key"}

\* The position of the first failure of s (s has one).
FirstErr(s) == CHOOSE i \in 1..Len(s) : is_err(s[i]) /\ \A j \in 1..(i - 1) : is_ok(s[j])

\* C12: when the sequence holds a failure, each of the six reductions
\* returns the first failure in sequence order, whatever successes precede
\* or follow it, and has pulled exactly the elements up to that failure:
\* the cursor rests just past it.
C12_FirstFailure ==
  (call.op \in ReduceOps /\ ~AllOk(Logical)) =>
    LET i == FirstErr(Logical) IN
    /\ call.res = Logical[i]
    /\ call.pulls = i
    /\ iter = call.pre_iter + i

\* try_max_by on the first component over the doc vector with failures:
\* Err(7) (written Err("E")) comes back after two successes, and the later
\* failure and the success after it are not pulled.
C12_Witness ==
  /\ call.op = "try_max_by"
  /\ call.arg = "fst"
  /\ vals = MaxErrDocVec
  /\ call.pre_iter = 0
  /\ call.res = Err("E")
  /\ iter = 3

\* -------------------------------------------------- properties of try_unzip

\* The first (c = 1) or second (c = 2) components of the pairs of s, in order.
Components(s, c) == [i \in 1..Len(s) |-> s[i][2][c]]

\* C13: try_unzip returns the first failure in sequence order and neither
\* container, and has consumed nothing after that failure: the element
\* behind it is what next() yields (over [Ok((1,2)), Err(E), Ok((5,6))] the
\* result is Err(E) and Ok((5,6)) is next). With no failure it consumes the
\* whole sequence and returns Ok((L, R)), the first and the second components
\* in sequence order.
C13_TryUnzip ==
  (call.op = "try_unzip") =>
    IF AllOk(Logical)
      THEN /\ call.res = Ok(<<Components(Logical, 1), Components(Logical, 2)>>)
           /\ iter = Len(vals)
           /\ iter_next(kind, iter, peeked).res = None
    ELSE LET i == FirstErr(Logical) IN
         /\ call.res = Logical[i]
         /\ iter = call.pre_iter + i
         /\ iter_next(kind, iter, peeked).res =
              (IF i < Len(Logical) THEN Some(Logical[i + 1]) ELSE None)

\* try_unzip over the doc vector stopped at Err(E) with Ok((5,6)) next.
C13_Witness ==
  /\ call.op = "try_unzip"
  /\ vals = UnzipErrDocVec
  /\ call.pre_iter = 0
  /\ call.res = Err("E")
  /\ iter_next(kind, iter, peeked).res = Some(Ok(<<5, 6>>))

\* ------------------------------------------------- the lazy combinators

\* The caller's closures FnMut(Ok) -> Result<T, Err> for map_ok: |x| Ok(x * 2)
\* (the doc example), |_| Err(MyErr) (tests/sanity.rs) and one that fails on 2.
MapOkFns == {"double", "fail", "bump_or_fail"}
apply_map_ok(f, x) ==
  CASE f = "double" -> Ok(x * 2)
    [] f = "fail" -> Err("G")
    [] OTHER -> IF x = 2 THEN Err("G") ELSE Ok(x + 1)

\* The caller's closures FnMut(Err) -> E for map_err.
MapErrFns == {"swap", "mark"}
apply_map_err(f, e) ==
  IF f = "swap" THEN (IF e = "E" THEN "F" ELSE "E")
  ELSE (IF e = "E" THEN "E2" ELSE "F2")

\* Into::into from the source's error type to that of err_into::<E>.
into(e) == IF e = "E" THEN "IntoE" ELSE "IntoF"

\* The caller's closures FnMut(Ok) -> Result<Option<T>, Err> for
\* try_filter_map: halving the even numbers (the doc example), and the same
\* failing on 3.
FilterMapFns == {"halve_even", "halve_even_or_fail"}
apply_filter_map(f, x) ==
  IF f = "halve_even_or_fail" /\ x = 3 THEN Err("G")
  ELSE IF x % 2 = 0 THEN Ok(Some(x \div 2)) ELSE Ok(None)

\* The caller's predicates FnMut(&Ok) -> Result<bool, Err> for try_filter.
FilterPreds == {"lt4", "ne2", "odd_or_fail"}

\* Result::transpose on Result<Option<T>, E>.
result_transpose(r) ==
  IF is_err(r) THEN Some(r)
  ELSE IF is_some(unwrap(r)) THEN Some(Ok(unwrap(unwrap(r))))
  ELSE None

\* The function a combinator applies to failure payloads.
apply_err(ad, e) == IF ad.op = "err_into" THEN into(e) ELSE apply_map_err(ad.fn, e)

\* A mapping that hands every element on as it came.
result_map_err_keeping_failure(ad, result) == result

\* Result::map_err.
result_map_err(ad, result) ==
  IF is_err(result) THEN Err(apply_err(ad, unwrap(result))) ELSE result

\* The payload a closure that sees only successes (want = "Ok") or only
\* failures (want = "Err") is called with for result, if any.
called_with(want, result) == IF result[1] = want THEN <<unwrap(result)>> ELSE <<>>

\* Map::next for err_into: self.iter.next().map(|result|
\* result.map_err(Into::into)).
map_next_fn(ad, k, it, pk) ==
  LET o == iter_next(k, it, pk) IN
  IF is_none(o.res) THEN o
  ELSE [o EXCEPT !.res = Some(result_map_err(ad, unwrap(o.res))),
                 !.calls = called_with("Err", unwrap(o.res))]

\* A mapping adapter that ends the sequence where the source fails.
from_fn_next_fn_ending_at_failure(ad, k, it, pk) ==
  LET o == iter_next(k, it, pk) IN
  IF is_none(o.res) THEN o
  ELSE LET result == unwrap(o.res) IN
       IF is_err(result) THEN [o EXCEPT !.res = None]
       ELSE IF ad.op = "map_ok"
         THEN [o EXCEPT !.res = Some(apply_map_ok(ad.fn, unwrap(result))),
                        !.calls = <<unwrap(result)>>]
       ELSE o

\* FromFn::next for map_ok and map_err: the closure calls self.next() and
\* maps the element with result.and_then(&mut f) or result.map_err(&mut f).
from_fn_next_fn(ad, k, it, pk) ==
  LET o == iter_next(k, it, pk) IN
  IF is_none(o.res) THEN o
  ELSE LET result == unwrap(o.res) IN
       IF ad.op = "map_ok"
         THEN [o EXCEPT !.res = Some(IF is_ok(result) THEN apply_map_ok(ad.fn, unwrap(result))
                                     ELSE result),
                        !.calls = called_with("Ok", result)]
       ELSE [o EXCEPT !.res = Some(result_map_err(ad, result)),
                      !.calls = called_with("Err", result)]

\* The closure f of try_filter_map: the caller's, or the one try_filter
\* builds from its predicate (`predicate(&value)?`).
filter_map_f(ad, value) ==
  IF ad.op = "try_filter"
    THEN LET p == apply_pred(ad.fn, value) IN
         IF is_err(p) THEN p ELSE IF unwrap(p) THEN Ok(Some(value)) ELSE Ok(None)
  ELSE apply_filter_map(ad.fn, value)

\* A filtering closure that lets the source's failures fall out with the
\* dropped elements.
filter_map_closure_dropping_failures(ad, result) ==
  IF is_ok(result) THEN result_transpose(filter_map_f(ad, unwrap(result)))
  ELSE None

\* The closure try_filter_map passes to Iterator::filter_map.
filter_map_closure(ad, result) ==
  IF is_ok(result) THEN result_transpose(filter_map_f(ad, unwrap(result)))
  ELSE Some(result)

\* A filtering adapter that reads one element past the one it emits.
RECURSIVE filter_map_next_fn_reading_past(_, _, _, _, _, _)
filter_map_next_fn_reading_past(ad, k, it, pk, pulls, calls) ==
  LET o == iter_next(k, it, pk) IN
  IF is_none(o.res) THEN Outcome(None, o.iter, o.peeked, pulls + 1, calls)
  ELSE LET result == unwrap(o.res)
           called == calls \o called_with("Ok", result)
           out == filter_map_closure(ad, result)
           past == iter_next(k, o.iter, o.peeked)
       IN IF is_some(out) THEN Outcome(out, past.iter, past.peeked, pulls + 2, called)
          ELSE filter_map_next_fn_reading_past(ad, k, o.iter, o.peeked, pulls + 1, called)

\* FilterMap::next: pulls until the closure returns Some or the source ends.
RECURSIVE filter_map_next_fn(_, _, _, _, _, _)
filter_map_next_fn(ad, k, it, pk, pulls, calls) ==
  LET o == iter_next(k, it, pk) IN
  IF is_none(o.res) THEN Outcome(None, o.iter, o.peeked, pulls + 1, calls)
  ELSE LET result == unwrap(o.res)
           called == calls \o called_with("Ok", result)
           out == filter_map_closure(ad, result)
       IN IF is_some(out) THEN Outcome(out, o.iter, o.peeked, pulls + 1, called)
          ELSE filter_map_next_fn(ad, k, o.iter, o.peeked, pulls + 1, called)

\* An inspecting adapter whose closure is called twice for an element.
inspect_next_fn_calling_twice(ad, k, it, pk) ==
  LET o == iter_next(k, it, pk) IN
  IF is_none(o.res) THEN o
  ELSE LET c == called_with(IF ad.op = "inspect_ok" THEN "Ok" ELSE "Err", unwrap(o.res))
       IN [o EXCEPT !.calls = c \o c]

\* Inspect::next for inspect_ok and inspect_err: the closure looks at the
\* element, which is then passed on.
inspect_next_fn(ad, k, it, pk) ==
  LET o == iter_next(k, it, pk) IN
  IF is_none(o.res) THEN o
  ELSE [o EXCEPT !.calls = called_with(IF ad.op = "inspect_ok" THEN "Ok" ELSE "Err",
                                       unwrap(o.res))]

\* A constructor that reads the first element ahead when it is built.
lazy_new_priming(it, pk) ==
  LET o == vec_next(it) IN Outcome(None, o.iter, pk, 1, <<>>)

\* self.map(..), iter::from_fn(..), self.filter_map(..), self.inspect(..) and
\* TryPeekable::new: the struct is built around the iterator (and the
\* closure); nothing is called.
lazy_new(it, pk) == Outcome(None, it, pk, 0, <<>>)

\* A by-value combinator returned its adapter: the raw iterator moved into it.
Built(op, fn) ==
  LET o == lazy_new(iter, peeked) IN
  /\ alive /\ kind = "vec" /\ adapter = NoAdapter
  /\ adapter' = [op |-> op, fn |-> fn, from |-> o.iter]
  /\ alive' = FALSE
  /\ iter' = o.iter
  /\ peeked' = o.peeked
  /\ call' = Call(op, fn, o)
  /\ seen' = seen \o o.calls
  /\ run' = NoRun
  /\ UNCHANGED <<vals, kind, emitted>>

err_into == Built("err_into", "into")

map_ok == \E f \in MapOkFns : Built("map_ok", f)

map_err == \E f \in MapErrFns : Built("map_err", f)

try_filter_map == \E f \in FilterMapFns : Built("try_filter_map", f)

try_filter == \E predicate \in FilterPreds : Built("try_filter", predicate)

inspect_ok == Built("inspect_ok", "push")

inspect_err == Built("inspect_err", "push")

\* TryIteratorExt::try_peekable: TryPeekable::new(self).
try_peekable ==
  LET o == lazy_new(iter, new_peeked) IN
  /\ alive /\ kind = "vec" /\ adapter = NoAdapter
  /\ kind' = "try_peekable"
  /\ iter' = o.iter
  /\ peeked' = o.peeked
  /\ call' = Call("try_peekable", None, o)
  /\ seen' = seen \o o.calls
  /\ run' = NoRun
  /\ UNCHANGED <<vals, alive, adapter, emitted>>

\* next() on the adapter returned: what it emitted and what its closure was
\* called with are appended to the logs.
Emitted(op, o) ==
  /\ iter' = o.iter
  /\ peeked' = o.peeked
  /\ call' = Call(op, None, o)
  /\ emitted' = IF is_some(o.res) THEN Append(emitted, unwrap(o.res)) ELSE emitted
  /\ seen' = seen \o o.calls
  /\ UNCHANGED <<vals, kind, alive, adapter, run>>

map_next ==
  /\ adapter.op = "err_into"
  /\ Emitted("Map::next", map_next_fn(adapter, kind, iter, peeked))

from_fn_next ==
  /\ adapter.op \in {"map_ok", "map_err"}
  /\ Emitted("FromFn::next", from_fn_next_fn(adapter, kind, iter, peeked))

filter_map_next ==
  /\ adapter.op \in {"try_filter_map", "try_filter"}
  /\ Emitted("FilterMap::next", filter_map_next_fn(adapter, kind, iter, peeked, 0, <<>>))

inspect_next ==
  /\ adapter.op \in {"inspect_ok", "inspect_err"}
  /\ Emitted("Inspect::next", inspect_next_fn(adapter, kind, iter, peeked))

\* The vectors of the doc examples of try_filter_map, try_filter and
\* inspect_ok / inspect_err (whose failures Err(3), Err(9) are written
\* Err("E"), Err("F")).
FilterMapDocVec == <<Ok(1), Ok(6), Err("E")>>
FilterDocVec == <<Ok(1), Ok(2), Ok(3), Err("E")>>
InspectDocVec == <<Ok(5), Err("E"), Err("F"), Ok(7), Ok(2)>>
LazyDocVecs == {FilterMapDocVec, FilterDocVec, InspectDocVec}

\* vals.into_iter(), no combinator built yet.
InitLazy ==
  /\ vals \in SeqsUpTo(Items, MaxLen) \cup LazyDocVecs
  /\ iter = 0
  /\ peeked = None
  /\ kind = "vec"
  /\ alive = TRUE
  /\ call = NoCall
  /\ run = NoRun
  /\ Direct

NextLazy ==
  \/ next
  \/ err_into
  \/ map_ok
  \/ map_err
  \/ try_filter_map
  \/ try_filter
  \/ inspect_ok
  \/ inspect_err
  \/ try_peekable
  \/ try_peek
  \/ map_next
  \/ from_fn_next
  \/ filter_map_next
  \/ inspect_next

SpecLazy == InitLazy /\ [][NextLazy]_vars

\* ------------------------------------- properties of the lazy combinators

\* The source elements the adapter has pulled since it was built.
Pulled == SubSeq(vals, adapter.from + 1, iter)

\* The success payloads and the failure payloads of s, in order.
RECURSIVE PayloadsOf(_, _)
PayloadsOf(tag, s) ==
  IF s = <<>> THEN <<>>
  ELSE (IF Head(s)[1] = tag THEN <<Head(s)[2]>> ELSE <<>>) \o PayloadsOf(tag, Tail(s))

\* What try_filter_map(f) owes for one source element: a failure as it is;
\* for a success v, Ok(t) when f(v) = Ok(Some(t)), nothing when f(v) =
\* Ok(None), Err(e) when f(v) = Err(e).
FilterMapOwes(f, item) ==
  IF is_err(item) THEN <<item>>
  ELSE LET r == apply_filter_map(f, unwrap(item)) IN
       IF is_err(r) THEN <<r>>
       ELSE IF is_some(unwrap(r)) THEN <<Ok(unwrap(unwrap(r)))>>
       ELSE <<>>

\* What try_filter(predicate) owes for one source element: a failure as it
\* is; a success v itself when predicate(v) = Ok(true), nothing when it is
\* Ok(false), Err(e) when it is Err(e).
FilterOwes(predicate, item) ==
  IF is_err(item) THEN <<item>>
  ELSE LET r == apply_pred(predicate, unwrap(item)) IN
       IF is_err(r) THEN <<r>> ELSE IF unwrap(r) THEN <<item>> ELSE <<>>

RECURSIVE Filtered(_, _)
Filtered(ad, s) ==
  IF s = <<>> THEN <<>>
  ELSE (IF ad.op = "try_filter" THEN FilterOwes(ad.fn, Head(s))
        ELSE FilterMapOwes(ad.fn, Head(s))) \o Filtered(ad, Tail(s))

\* C14: what try_filter_map(f) and try_filter(p) have emitted is, in source
\* order, what each pulled element owes: a source failure unchanged, Ok(t)
\* for f(v) = Ok(Some(t)), nothing for f(v) = Ok(None), Err(e) for f(v) =
\* Err(e); f was applied to the successes only. Halving the even numbers
\* over [Ok(1), Ok(6), Err(E)] yields exactly [Ok(3), Err(E)].
C14_TryFilterMap ==
  (adapter.op \in {"try_filter_map", "try_filter"}) =>
    /\ emitted = Filtered(adapter, Pulled)
    /\ seen = PayloadsOf("Ok", Pulled)
    /\ (/\ vals = FilterMapDocVec
        /\ adapter.op = "try_filter_map" /\ adapter.fn = "halve_even"
        /\ adapter.from = 0
        /\ call.op = "FilterMap::next" /\ call.res = None)
         => emitted = <<Ok(3), Err("E")>>

\* The doc example ran to its end: 1 was dropped, 6 halved, Err(E) passed on.
C14_Witness ==
  /\ vals = FilterMapDocVec
  /\ adapter = [op |-> "try_filter_map", fn |-> "halve_even", from |-> 0]
  /\ call.op = "FilterMap::next"
  /\ call.res = None
  /\ emitted = <<Ok(3), Err("E")>>
  /\ seen = <<1, 6>>

\* C15: map_ok(f) has emitted exactly one element per pulled source element,
\* in source order: a source failure unchanged, a success v replaced by
\* f(v), be it Ok(t) or Err(e); f was called for the successes only. A
\* failure does not end the sequence: next() returns None only when the
\* source has no element left.
C15_MapOk ==
  (adapter.op = "map_ok") =>
    /\ Len(emitted) = Len(Pulled)
    /\ \A i \in 1..Len(Pulled) :
         emitted[i] = (IF is_err(Pulled[i]) THEN Pulled[i]
                       ELSE apply_map_ok(adapter.fn, unwrap(Pulled[i])))
    /\ seen = PayloadsOf("Ok", Pulled)
    /\ (call.op = "FromFn::next") => (is_none(call.res) <=> call.pre_iter = Len(vals))

\* A source failure, then a failure of f, then a success were emitted.
C15_Witness ==
  /\ adapter.op = "map_ok"
  /\ adapter.fn = "bump_or_fail"
  /\ vals = <<Err("E"), Ok(2), Ok(1)>>
  /\ emitted = <<Err("E"), Err("G"), Ok(2)>>
  /\ seen = <<2, 1>>

\* C16: map_err(f) and err_into have emitted exactly one element per pulled
\* source element, in source order: a success unchanged, a failure e replaced
\* by Err(f(e)), for err_into by Err(e.into()); the function or conversion
\* was applied to the failure payloads only.
C16_MapErr ==
  (adapter.op \in {"map_err", "err_into"}) =>
    /\ Len(emitted) = Len(Pulled)
    /\ \A i \in 1..Len(Pulled) :
         emitted[i] = (IF is_ok(Pulled[i]) THEN Pulled[i]
                       ELSE IF adapter.op = "err_into" THEN Err(into(unwrap(Pulled[i])))
                       ELSE Err(apply_map_err(adapter.fn, unwrap(Pulled[i]))))
    /\ seen = PayloadsOf("Err", Pulled)

\* err_into passed a success on and converted the two failures around it.
C16_Witness ==
  /\ adapter.op = "err_into"
  /\ vals = <<Err("E"), Ok(1), Err("F")>>
  /\ emitted = <<Err("IntoE"), Ok(1), Err("IntoF")>>
  /\ seen = <<"E", "F">>

\* The combinators that build a lazy adapter, and the calls that advance one.
LazyOps ==
  {"err_into", "map_ok", "map_err", "try_filter_map", "try_filter",
   "inspect_ok", "inspect_err", "try_peekable"}
AdapterNexts == {"Map::next", "FromFn::next", "FilterMap::next", "Inspect::next"}

\* C17 (one step): building a lazy combinator pulls nothing from the source
\* and calls no closure; once one is built, the source's cursor moves only
\* within a call that advances or peeks the resulting sequence.
C17_Step ==
  /\ (call'.op \in LazyOps) =>
       /\ iter' = iter
       /\ call'.pulls = 0
       /\ call'.calls = <<>>
       /\ seen' = seen
       /\ emitted' = emitted
  /\ (iter' # iter /\ adapter # NoAdapter) => call'.op \in AdapterNexts
  /\ (iter' # iter /\ kind = "try_peekable") => call'.op \in {"next", "try_peek"}

\* C17: constructing err_into, map_ok, map_err, try_filter_map, try_filter,
\* inspect_ok, inspect_err or try_peekable consumes no element of the source
\* and invokes no closure; the source is advanced only while the caller
\* advances or peeks the resulting sequence.
C17_Laziness == [][C17_Step]_vars

\* try_filter_map was just built over a vector whose elements are all
\* still to come.
C17_Witness ==
  /\ call.op = "try_filter_map"
  /\ adapter.op = "try_filter_map"
  /\ Len(vals) = MaxLen
  /\ iter = 0
  /\ seen = <<>>
  /\ emitted = <<>>

\* The source as the last call found it.
Ahead == SubSeq(vals, call.pre_iter + 1, Len(vals))

\* The positions of s whose element a filtering adapter does not drop.
Kept(ad, s) == {i \in 1..Len(s) : Filtered(ad, <<s[i]>>) # <<>>}

\* C18: a call of next() on map_ok, map_err, err_into, inspect_ok or
\* inspect_err pulls exactly one source element for the element it emits;
\* one on try_filter_map or try_filter pulls up to and including the first
\* element that is not dropped, and no further. So whenever a failure read
\* from the source is emitted, the cursor rests just past that failure.
C18_NoLookPast ==
  (call.op \in AdapterNexts) =>
    /\ is_some(call.res) =>
         /\ call.pulls = iter - call.pre_iter
         /\ (call.op # "FilterMap::next") => call.pulls = 1
         /\ (call.op = "FilterMap::next") =>
              /\ Kept(adapter, Ahead) # {}
              /\ \A j \in Kept(adapter, Ahead) : call.pulls <= j
              /\ call.pulls \in Kept(adapter, Ahead)
         /\ is_err(vals[iter]) =>
              /\ is_err(unwrap(call.res))
              /\ \A j \in (call.pre_iter + 1)..(iter - 1) :
                   is_ok(vals[j]) /\ call.op = "FilterMap::next"
    /\ is_none(call.res) =>
         /\ iter = Len(vals)
         /\ Kept(adapter, Ahead) = {} \/ call.op # "FilterMap::next"
         /\ (call.op # "FilterMap::next") => call.pre_iter = Len(vals)

\* try_filter dropped a success, then emitted the source's failure and
\* left the element behind it unread.
C18_Witness ==
  /\ call.op = "FilterMap::next"
  /\ adapter.op = "try_filter"
  /\ adapter.fn = "ne2"
  /\ vals = <<Ok(2), Err("E"), Ok(1)>>
  /\ call.pre_iter = 0
  /\ call.res = Some(Err("E"))
  /\ call.pulls = 2
  /\ iter = 2

\* C20: inspect_ok(f) and inspect_err(f) have emitted exactly the pulled
\* source elements, unchanged and in order; f was called exactly once for
\* each emitted success (inspect_ok) or failure (inspect_err) payload and
\* never for the other kind, in emission order. Over [Ok(5), Err(3), Err(9),
\* Ok(7), Ok(2)] inspect_err observes 3 then 9 (written "E" then "F") and
\* inspect_ok observes 5, 7, 2.
C20_Inspect ==
  (adapter.op \in {"inspect_ok", "inspect_err"}) =>
    /\ emitted = Pulled
    /\ seen = PayloadsOf(IF adapter.op = "inspect_ok" THEN "Ok" ELSE "Err", emitted)
    /\ (vals = InspectDocVec /\ adapter.from = 0 /\ iter = Len(vals)) =>
         seen = (IF adapter.op = "inspect_ok" THEN <<5, 7, 2>> ELSE <<"E", "F">>)

\* inspect_err ran over the whole doc vector and observed its two failures.
C20_Witness ==
  /\ adapter.op = "inspect_err"
  /\ vals = InspectDocVec
  /\ emitted = InspectDocVec
  /\ seen = <<"E", "F">>

\* ------------------------------------------ sequences without failures

\* A vector without failures, of numbers or of pairs, and its into_iter().
InitPlain ==
  /\ \/ /\ vals \in SeqsUpTo({Ok(v) : v \in Vals}, MaxLen)
        /\ kind = "vec"
     \/ /\ vals \in SeqsUpTo({Ok(q) : q \in Pairs}, MaxLen)
        /\ kind = "vec_of_pairs"
  /\ iter = 0
  /\ peeked = None
  /\ alive = TRUE
  /\ call = NoCall
  /\ run = NoRun
  /\ Direct

\* The closures over numbers apply to the vectors of numbers; try_unzip
\* (Self: TryIterator<Ok = (A, B)>) and the comparators and keys over pairs
\* apply to the vectors of pairs.
NextPlain ==
  \/ next
  \/ kind = "vec" /\ try_all
  \/ kind = "vec" /\ try_any
  \/ map_ok
  \/ try_filter_map
  \/ try_filter
  \/ from_fn_next
  \/ filter_map_next
  \/ kind = "vec_of_pairs" /\ try_unzip
  \/ kind = "vec_of_pairs" /\ try_max
  \/ kind = "vec_of_pairs" /\ try_max_by
  \/ kind = "vec_of_pairs" /\ try_max_by_key
  \/ kind = "vec_of_pairs" /\ try_min
  \/ kind = "vec_of_pairs" /\ try_min_by
  \/ kind = "vec_of_pairs" /\ try_min_by_key

SpecPlain == InitPlain /\ [][NextPlain]_vars

\* The payloads of a sequence of successes, and a plain sequence wrapped in Ok.
Plain(s) == [i \in 1..Len(s) |-> s[i][2]]
Oks(s) == [i \in 1..Len(s) |-> Ok(s[i])]

\* The closures that never fail; the plain closure is what they wrap in Ok.
NeverFailing == {"double", "halve_even", "lt4", "gt4", "ne2", "eq3"}

\* Iterator::map, filter_map, filter, all, any and unzip on a plain sequence.
plain_map(s, f) == [i \in 1..Len(s) |-> unwrap(apply_map_ok(f, s[i]))]

RECURSIVE plain_filter_map(_, _)
plain_filter_map(s, f) ==
  IF s = <<>> THEN <<>>
  ELSE LET o == unwrap(apply_filter_map(f, Head(s))) IN
       (IF is_some(o) THEN <<unwrap(o)>> ELSE <<>>) \o plain_filter_map(Tail(s), f)

RECURSIVE plain_filter(_, _)
plain_filter(s, f) ==
  IF s = <<>> THEN <<>>
  ELSE (IF unwrap(apply_pred(f, Head(s))) THEN <<Head(s)>> ELSE <<>>)
         \o plain_filter(Tail(s), f)

plain_all(s, f) == \A i \in 1..Len(s) : unwrap(apply_pred(f, s[i]))
plain_any(s, f) == \E i \in 1..Len(s) : unwrap(apply_pred(f, s[i]))
plain_unzip(s) == <<[i \in 1..Len(s) |-> s[i][1]], [i \in 1..Len(s) |-> s[i][2]]>>

\* Iterator::max, max_by, max_by_key (the last of equal maxima) and
\* Iterator::min, min_by, min_by_key (the first of equal minima) on a plain
\* sequence, under the order of the last call.
plain_max(s) ==
  IF s = <<>> THEN None
  ELSE Some(s[CHOOSE i \in 1..Len(s) :
                /\ \A j \in 1..Len(s) : OrderOf(s[j], s[i]) # "Greater"
                /\ \A j \in (i + 1)..Len(s) : OrderOf(s[j], s[i]) = "Less"])
plain_min(s) ==
  IF s = <<>> THEN None
  ELSE Some(s[CHOOSE i \in 1..Len(s) :
                /\ \A j \in 1..Len(s) : OrderOf(s[j], s[i]) # "Less"
                /\ \A j \in 1..(i - 1) : OrderOf(s[j], s[i]) = "Greater"])

\* C19: over a sequence without failures and with closures that never fail,
\* each combinator yields what its plain counterpart yields on the success
\* payloads, wrapped in Ok: map_ok as map, try_filter_map as filter_map,
\* try_filter as filter, try_all as all, try_any as any, try_unzip as unzip,
\* try_max* as max* and try_min* as min*.
C19_AgreesWithPlain ==
  AllOk(vals) =>
    /\ (adapter.op = "map_ok" /\ adapter.fn \in NeverFailing) =>
         emitted = Oks(plain_map(Plain(Pulled), adapter.fn))
    /\ (adapter.op = "try_filter_map" /\ adapter.fn \in NeverFailing) =>
         emitted = Oks(plain_filter_map(Plain(Pulled), adapter.fn))
    /\ (adapter.op = "try_filter" /\ adapter.fn \in NeverFailing) =>
         emitted = Oks(plain_filter(Plain(Pulled), adapter.fn))
    /\ (call.op = "try_all" /\ call.arg \in NeverFailing) =>
         call.res = Ok(plain_all(Plain(Logical), call.arg))
    /\ (call.op = "try_any" /\ call.arg \in NeverFailing) =>
         call.res = Ok(plain_any(Plain(Logical), call.arg))
    /\ (call.op = "try_unzip") => call.res = Ok(plain_unzip(Plain(Logical)))
    /\ (call.op \in MaxOps) => call.res = Ok(plain_max(Plain(Logical)))
    /\ (call.op \in ReduceOps \ MaxOps) => call.res = Ok(plain_min(Plain(Logical)))

\* try_min_by on the first component returned what Iterator::min_by returns
\* on [(1,0), (1,-1), (2,0)], whose two minima tie.
C19_Witness ==
  /\ call.op = "try_min_by"
  /\ call.arg = "fst"
  /\ call.pre_iter = 0
  /\ vals = <<Ok(<<1, 0>>), Ok(<<1, -1>>), Ok(<<2, 0>>)>>
  /\ call.res = Ok(Some(<<1, 0>>))

\* -------------------------------------------------- TryPeekable::size_hint

\* usize::saturating_add and usize::checked_add.
saturating_add(a, b) == IF a + b > UsizeMax THEN UsizeMax ELSE a + b
checked_add(a, b) == IF a + b > UsizeMax THEN None ELSE Some(a + b)

\* A size_hint whose bounds wrap around the word instead.
peekable_size_hint_wrapping(pk, inner) ==
  IF is_some(pk) /\ is_none(unwrap(pk)) THEN <<0, Some(0)>>
  ELSE LET peek_len == IF is_some(pk) THEN 1 ELSE 0 IN
       <<(inner[1] + peek_len) % (UsizeMax + 1),
         IF is_some(inner[2]) THEN Some((unwrap(inner[2]) + peek_len) % (UsizeMax + 1))
         ELSE None>>

\* A size_hint that leaves the buffered element out of the bounds.
peekable_size_hint_forgetting_peeked(pk, inner) ==
  IF is_some(pk) /\ is_none(unwrap(pk)) THEN <<0, Some(0)>> ELSE inner

\* TryPeekable::size_hint, inner being what self.iter.size_hint() returns.
peekable_size_hint(pk, inner) ==
  IF is_some(pk) /\ is_none(unwrap(pk)) THEN <<0, Some(0)>>
  ELSE LET peek_len == IF is_some(pk) THEN 1 ELSE 0
           lo == saturating_add(inner[1], peek_len)
           hi == IF is_some(inner[2]) THEN checked_add(unwrap(inner[2]), peek_len) ELSE None
       IN <<lo, hi>>

\* vec::IntoIter::size_hint: the exact number of elements left.
vec_size_hint(it) == <<Len(vals) - it, Some(Len(vals) - it)>>

\* size_hint takes &self: it returns the bounds and changes nothing.
SizeHint(inner) ==
  /\ alive /\ kind = "try_peekable"
  /\ Returned("size_hint", inner, Outcome(peekable_size_hint(peeked, inner), iter, peeked, 0, <<>>))
  /\ run' = run

\* size_hint on a TryPeekable over the vector's iterator.
size_hint == SizeHint(vec_size_hint(iter))

\* The bounds an iterator I may report: any lower bound, any upper bound or
\* none.
InnerHints == (0..UsizeMax) \X ({None} \cup {Some(x) : x \in 0..UsizeMax})

\* size_hint on a TryPeekable<I> over any iterator I, whose own size_hint()
\* answer is an input.
size_hint_generic == \E inner \in InnerHints : SizeHint(inner)

\* The doc example's vector behind try_peekable().
InitHint ==
  /\ vals = PeekDocVec
  /\ iter = 0
  /\ peeked = new_peeked
  /\ kind = "try_peekable"
  /\ alive = TRUE
  /\ call = NoCall
  /\ run = NoRun
  /\ Direct

NextHint ==
  \/ try_peek
  \/ next
  \/ size_hint_generic

SpecHint == InitHint /\ [][NextHint]_vars

\* C21: size_hint returns (0, Some(0)) when BufferedNone is cached, the
\* underlying bounds when the cache is Empty, and with BufferedSome cached
\* the underlying bounds each increased by one: the lower bound saturating
\* at usize::MAX, the upper bound None when adding one overflows or when the
\* underlying upper bound is None. It changes neither the cache nor the
\* source.
C21_SizeHint ==
  (call.op = "size_hint") =>
    LET lo == call.arg[1]
        hi == call.arg[2]
    IN /\ WasBufferedNone => call.res = <<0, Some(0)>>
       /\ WasEmpty => call.res = call.arg
       /\ WasBufferedSome =>
            /\ call.res[1] = (IF lo = UsizeMax THEN UsizeMax ELSE lo + 1)
            /\ call.res[2] = (IF is_none(hi) \/ unwrap(hi) = UsizeMax THEN None
                              ELSE Some(unwrap(hi) + 1))
       /\ peeked = call.pre_peeked
       /\ iter = call.pre_iter
       /\ call.pulls = 0

\* With a success buffered and both underlying bounds at usize::MAX the
\* lower bound saturated and the upper bound became None.
C21_Witness ==
  /\ call.op = "size_hint"
  /\ WasBufferedSome
  /\ call.arg = <<UsizeMax, Some(UsizeMax)>>
  /\ call.res = <<UsizeMax, None>>
  /\ peeked = Some(Some(1))

\* ------------------------------------------- walking the lookahead adapter

\* Any interleaving of try_peek, try_peek_mut, next and size_hint on a
\* TryPeekable over the vector's iterator.
NextWalk ==
  \/ try_peek
  \/ try_peek_mut
  \/ next
  \/ size_hint

SpecWalk == InitPeek /\ [][NextWalk]_vars

\* How many source elements are behind the adapter: those the source's
\* cursor passed, less the one held in the cache.
Behind(it, pk) == IF is_some(pk) /\ is_some(unwrap(pk)) THEN it - 1 ELSE it

\* What the last call delivered to the caller: the item next returned, or
\* the failure a peek returned.
Delivery ==
  IF call.op = "next" /\ is_some(call.res) THEN <<unwrap(call.res)>>
  ELSE IF call.op \in Peeks /\ is_err(call.res) THEN <<call.res>>
  ELSE <<>>

\* C22: under any interleaving of try_peek, try_peek_mut and next, each call
\* delivers exactly the source elements the adapter moves behind itself, in
\* order, and a buffered success is the source element the cursor last
\* passed; so the items returned by next and the failures returned by peeks,
\* in call order, are the source's elements in order, none lost, duplicated
\* or reordered, successes delivered by next only.
C22_ExactlyOnce ==
  /\ (is_some(peeked) /\ is_some(unwrap(peeked))) =>
       iter >= 1 /\ vals[iter] = Ok(unwrap(unwrap(peeked)))
  /\ (is_some(peeked) /\ is_none(unwrap(peeked))) => iter = Len(vals)
  /\ (call.op \in Peeks \cup {"next"}) =>
       /\ Delivery = SubSeq(vals, Behind(call.pre_iter, call.pre_peeked) + 1,
                            Behind(iter, peeked))
       /\ (call.op \in Peeks /\ Delivery # <<>>) => is_err(Delivery[1])
       /\ (call.op = "next" /\ is_none(call.res)) => Behind(iter, peeked) = Len(vals)

\* A peek delivered the failure of the doc vector after next had delivered
\* the success before it.
C22_Witness ==
  /\ vals = PeekDocVec
  /\ call.op = "try_peek_mut"
  /\ call.pre_iter = 1
  /\ call.res = Err("E")
  /\ Delivery = <<Err("E")>>
  /\ Behind(iter, peeked) = 2

\* How many items next() returns from cursor it and cache pk before its
\* first None.
RECURSIVE NextsUntilNone(_, _)
NextsUntilNone(it, pk) ==
  LET o == peekable_next(it, pk) IN
  IF is_none(o.res) THEN 0 ELSE 1 + NextsUntilNone(o.iter, o.peeked)

\* C23: over the exact-size vector iterator, in every reachable state of the
\* adapter (Empty, BufferedSome, BufferedNone, also right after a peek that
\* returned a failure) size_hint returns (n, Some(n)) with n the number of
\* items the following next calls return before the first None; so does
\* every size_hint call that was made.
C23_ExactSize ==
  LET n == NextsUntilNone(iter, peeked) IN
  /\ peekable_size_hint(peeked, vec_size_hint(iter)) = <<n, Some(n)>>
  /\ (call.op = "size_hint") => call.res = <<n, Some(n)>>

\* size_hint was asked with Ok(1) buffered in front of the doc vector's
\* failure and last success: three items are still to come.
C23_Witness ==
  /\ vals = PeekDocVec
  /\ call.op = "size_hint"
  /\ peeked = Some(Some(1))
  /\ call.res = <<3, Some(3)>>
  /\ NextsUntilNone(iter, peeked) = 3

\* The call c answered that the sequence is at its end.
EndResult(c) ==
  \/ c.op = "next" /\ is_none(c.res)
  \/ c.op \in Peeks /\ c.res = Ok(None)

\* Every source element is behind the adapter.
Exhausted == Behind(iter, peeked) = Len(vals)

\* C24 (one step): an end-of-sequence answer is given only with the source
\* exhausted, and from then on every next returns None and every try_peek
\* or try_peek_mut returns Ok(None), also when the cache was reset to Empty
\* and the call asks the source again.
C24_Step ==
  /\ EndResult(call') => Exhausted'
  /\ Exhausted =>
       /\ Exhausted'
       /\ (call'.op \in Peeks \cup {"next"}) => EndResult(call')
       /\ (call'.op \in Peeks \cup {"next"} /\ is_none(peeked)) => call'.pulls = 1

\* C24: over a fused source TryPeekable is fused: once next has returned
\* None or a peek has returned Ok(None), every later next returns None and
\* every later peek returns Ok(None), under any interleaving.
C24_Fused == [][C24_Step]_vars

\* next consumed a cached None, which a peek had stored at the end of a
\* non-empty vector, and left the cache Empty.
C24_Witness ==
  /\ call.op = "next"
  /\ WasBufferedNone
  /\ is_none(call.res)
  /\ peeked = None
  /\ Len(vals) = MaxLen
  /\ Exhausted

\* ------------------------------------------- writing through try_peek_mut

\* A write that lands in a copy of the buffered value, not in the slot.
written_to_a_copy(pk, w) == pk

\* `*v = w` through the &mut I::Ok that try_peek_mut returned: v.as_mut()
\* and insert(Some(v)).as_mut() point into self.peeked itself.
written(pk, w) == Some(Some(w))

\* The caller assigns through the reference it holds from try_peek_mut; the
\* borrow lasts until the adapter is used again.
write ==
  /\ alive /\ kind = "try_peekable"
  /\ call.op \in {"try_peek_mut", "write"}
  /\ is_some(peeked) /\ is_some(unwrap(peeked))
  /\ \E w \in Vals :
       Returned("write", w, Outcome(None, iter, written(peeked, w), 0, <<>>))
  /\ run' = NoRun

NextMut ==
  \/ try_peek
  \/ try_peek_mut
  \/ write
  \/ next
  \/ try_next

SpecMut == InitPeek /\ [][NextMut]_vars

\* A success is buffered.
BufferedSome == is_some(peeked) /\ is_some(unwrap(peeked))

\* C25 (one step): a write through the reference of try_peek_mut replaces
\* the buffered success and does not advance the source; while a success is
\* buffered every try_peek and try_peek_mut returns it and leaves cache and
\* source alone, and the consuming call (next, try_next) returns it; and
\* try_peek_mut makes the transitions of try_peek in every state.
C25_Step ==
  /\ (call'.op = "write") =>
       /\ peeked' = Some(Some(call'.arg))
       /\ iter' = iter
       /\ call'.pulls = 0
  /\ (BufferedSome /\ call'.op \in Peeks) =>
       /\ call'.res = Ok(unwrap(peeked))
       /\ peeked' = peeked
       /\ iter' = iter
  /\ (BufferedSome /\ call'.op = "next") =>
       call'.res = Some(Ok(unwrap(unwrap(peeked)))) /\ iter' = iter
  /\ (BufferedSome /\ call'.op = "try_next") =>
       call'.res = Ok(unwrap(peeked)) /\ iter' = iter
  /\ try_peek_mut_fn(iter, peeked) = try_peek_fn(iter, peeked)

\* C25: try_peek_mut exposes the cached slot itself: a written value
\* replaces the buffered success, every following peek returns it and the
\* next consuming call returns it, the source is not advanced by the write,
\* and apart from the access mode try_peek_mut behaves as try_peek.
C25_PeekMutWrites == [][C25_Step]_vars

\* next returned 3, written over the Ok(1) that was buffered from the doc
\* vector; the source is where the peek left it.
C25_Witness ==
  /\ vals = PeekDocVec
  /\ call.op = "next"
  /\ call.pre_peeked = Some(Some(3))
  /\ call.pre_iter = 1
  /\ call.res = Some(Ok(3))
  /\ iter = 1

====
